---------------------------- MODULE Spec2Model ----------------------------
(***************************************************************************)
(* Model of streamlit_app.py (Price History Viewer).                       *)
(*                                                                         *)
(* The program is a Streamlit script: every user interaction reruns main() *)
(* from the top.  main() reads three files through memoised loaders        *)
(* (load_data with a 60 s time-to-live, load_supply_data and               *)
(* load_image_data without expiry), reads the widget values, filters the   *)
(* price table by calendar date and renders a chart, a percent-change      *)
(* badge and a statistics panel.                                           *)
(*                                                                         *)
(* Text is modelled as sequences of Unicode code points, a pandas column   *)
(* as a sequence of cells (a number or NaN), a Python dict as a function   *)
(* whose DOMAIN is the set of keys, the percent change as an IEEE 754      *)
(* double (sign, significand bits, binary exponent, or inf / nan), and a   *)
(* moving-average point as the fraction sum / count of its window.         *)
(***************************************************************************)
EXTENDS Integers, Sequences, FiniteSets, TLC

VARIABLES
    clock,        \* the wall clock, in seconds
    priceFile,    \* data/price_history.csv: [mtime, df]
    supplyFile,   \* data/nft_supply_results.csv: [status, dict]
    imageFile,    \* data/img.csv: [status, lines]
    dataCache,    \* st.cache_data(ttl=60) entry of load_data, or None
    supplyCache,  \* st.cache_data entry of load_supply_data, or None
    imageCache,   \* st.cache_data entry of load_image_data, or None
    widgets,      \* the sidebar's widget values of the last run
    view,         \* what the last run of main() put on the page
    run,          \* load_data between its lines 44 and 45, or None
    raw,          \* argument of a direct call of the name clean-up
    out           \* result of that call

vars == <<clock, priceFile, supplyFile, imageFile, dataCache, supplyCache, imageCache, widgets, view, run, raw, out>>

files == <<priceFile, supplyFile, imageFile>>

caches == <<dataCache, supplyCache, imageCache>>

(***************************************************************************)
(* Bounds of the model.                                                    *)
(***************************************************************************)
MaxRows == 3

MaxDay == 3

SlotsPerDay == 2

MaxPrice == 3

MaxMaPeriod == 2

MaxNameLen == 4

MaxClock == 100

(***************************************************************************)
(* Program constants.                                                      *)
(***************************************************************************)
TTL == 60

SamplesPerHour == 2

SliderMin == 1

SliderMax == 24

SliderDefault == 6

\* An optional value: None is the empty sequence, a value v is Some(v).
None == <<>>

Some(v) == <<v>>

\* A cell of a numeric column: NaN (no observation) or Some(price).
NaN == <<>>

\* line 73: "https://i.ibb.co/tpZ9HsSY/photo-2023-12-23-09-42-33.jpg"
default_img == <<104, 116, 116, 112, 115, 58, 47, 47, 105, 46, 105, 98, 98, 46, 99, 111, 47, 116, 112, 90, 57, 72, 115, 83, 89, 47, 112, 104, 111, 116, 111, 45, 50, 48, 50, 51, 45, 49, 50, 45, 50, 51, 45, 48, 57, 45, 52, 50, 45, 51, 51, 46, 106, 112, 103>>

(***************************************************************************)
(* Small helpers.                                                          *)
(***************************************************************************)
Min(S) == CHOOSE x \in S : \A y \in S : x <= y

Max(S) == CHOOSE x \in S : \A y \in S : x >= y

Abs(x) == IF x < 0 THEN -x ELSE x

RECURSIVE SumSeq(_)
SumSeq(s) == IF s = <<>> THEN 0 ELSE Head(s) + SumSeq(Tail(s))

Range(s) == {s[i] : i \in DOMAIN s}

\* dict.get(key, default)
Get(d, k, dflt) == IF k \in DOMAIN d THEN d[k] ELSE dflt

\* d[key] = value
Put(d, k, v) == [x \in (DOMAIN d) \cup {k} |-> IF x = k THEN v ELSE d[x]]

EmptyDict == [x \in {} |-> 0]

(***************************************************************************)
(* Number formatting.  f"{value:.2f}" prints the value rounded to the      *)
(* nearest hundredth, ties to even; the text is modelled by its number of  *)
(* hundredths.                                                             *)
(***************************************************************************)
RoundHalfEven(n, d) == LET q == n \div d
                           r == n % d
                       IN  IF 2 * r < d THEN q
                           ELSE IF 2 * r > d THEN q + 1
                           ELSE IF q % 2 = 0 THEN q ELSE q + 1

(***************************************************************************)
(* IEEE 754 double arithmetic (line 128).  A double is                     *)
(* [kind |-> "finite", neg, mant, exp], the number (-1)^neg * mant * 2^exp *)
(* with mant a sequence of at most MantissaBits binary digits, the most    *)
(* significant first and nonzero (<<>> is zero), or [kind |-> "inf", neg], *)
(* or [kind |-> "nan"].  Every operation rounds its exact result to the    *)
(* nearest double, ties to even.  Digits are produced as many at a time as *)
(* keeps every intermediate integer below 2^IntBits.                       *)
(***************************************************************************)
MantissaBits == 53

\* integers stay below 2^IntBits
IntBits == 31

RECURSIVE Power2(_)
Power2(k) == IF k = 0 THEN 1 ELSE LET h == Power2(k \div 2) IN IF k % 2 = 0 THEN h * h ELSE 2 * h * h

PowersOfTwo == [k \in 0..(IntBits - 1) |-> Power2(k)]

Pow2(k) == PowersOfTwo[k]

\* the w low binary digits of n, the most significant first
FixedBits(n, w) == [i \in 1..w |-> (n \div Pow2(w - i)) % 2]

\* the number of binary digits of n
Width(n) == Cardinality({k \in 0..(IntBits - 1) : Pow2(k) <= n})

\* the binary digits of n without leading zeros
Bits(n) == FixedBits(n, Width(n))

\* the number whose binary digits are b
BitsValue(b) == LET v[i \in 0..Len(b)] == IF i = 0 THEN 0 ELSE 2 * v[i - 1] + b[i] IN v[Len(b)]

StripZeros(b) == IF b # <<>> /\ b[1] = 1 THEN b ELSE SubSeq(b, 1 + Cardinality({i \in DOMAIN b : \A j \in 1..i : b[j] = 0}), Len(b))

\* b + 1
Increment(b) == LET last == Len(b) - Cardinality({i \in DOMAIN b : \A j \in i..Len(b) : b[j] = 1}) IN IF last = 0 THEN <<1>> \o [i \in DOMAIN b |-> 0] ELSE [i \in DOMAIN b |-> IF i < last THEN b[i] ELSE IF i = last THEN 1 ELSE 0]

RECURSIVE TimesCarry(_, _, _)
TimesCarry(b, k, carry) == IF b = <<>> THEN Bits(carry) ELSE LET w == Min({Len(b), IntBits - Width(k)}) t == BitsValue(SubSeq(b, Len(b) - w + 1, Len(b))) * k + carry IN TimesCarry(SubSeq(b, 1, Len(b) - w), k, t \div Pow2(w)) \o FixedBits(t % Pow2(w), w)

\* b * k, exactly
Times(b, k) == StripZeros(TimesCarry(b, k, 0))

\* the first k binary digits of the fraction r / s (0 <= r < s), and what is
\* left of r
RECURSIVE FractionBits(_, _, _)
FractionBits(r, s, k) == IF k = 0 THEN [bits |-> <<>>, rem |-> r] ELSE LET w == Min({k, IntBits - Width(s)}) t == r * Pow2(w) rest == FractionBits(t % s, s, k - w) IN [bits |-> FixedBits(t \div s, w) \o rest.bits, rem |-> rest.rem]

\* the number of zeros that open the binary fraction r / s, and r past them
LeadingZeros(r, s) == IF r = 0 THEN [count |-> 0, rem |-> 0] ELSE LET z == Cardinality({k \in 1..(IntBits - 1) : r <= (s - 1) \div Pow2(k)}) IN [count |-> z, rem |-> r * Pow2(z)]

Zero(neg) == [kind |-> "finite", neg |-> neg, mant |-> <<>>, exp |-> 0]

\* the double nearest to bits * 2^exp (sticky: the exact number is greater
\* than that, by less than 2^exp), ties to even
RoundToDouble(neg, bits, exp, sticky) ==
    LET b == StripZeros(bits)
        extra == Len(b) - MantissaBits
    IN  IF b = <<>> THEN Zero(neg)
        ELSE IF extra <= 0 THEN [kind |-> "finite", neg |-> neg, mant |-> b, exp |-> exp]
        ELSE LET keep == SubSeq(b, 1, MantissaBits)
                 guard == b[MantissaBits + 1]
                 rest == sticky \/ \E i \in (MantissaBits + 2)..Len(b) : b[i] = 1
                 up == guard = 1 /\ (rest \/ keep[MantissaBits] = 1)
                 m == IF up THEN Increment(keep) ELSE keep
             IN  IF Len(m) > MantissaBits
                 THEN [kind |-> "finite", neg |-> neg, mant |-> SubSeq(m, 1, MantissaBits), exp |-> exp + extra + 1]
                 ELSE [kind |-> "finite", neg |-> neg, mant |-> m, exp |-> exp + extra]

\* float(n) / float(s) for integers n and s # 0
Quotient(n, s) ==
    LET a == Abs(n)
        d == Abs(s)
        whole == Bits(a \div d)
        skip == IF whole = <<>> THEN LeadingZeros(a % d, d) ELSE [count |-> 0, rem |-> a % d]
        frac == FractionBits(skip.rem, d, MantissaBits + 1 - Len(whole))
    IN  RoundToDouble((n < 0) # (s < 0), whole \o frac.bits, - (skip.count + MantissaBits + 1 - Len(whole)), frac.rem # 0)

\* x * k for a finite double x and a small positive integer k
TimesSmall(x, k) == RoundToDouble(x.neg, Times(x.mant, k), x.exp, FALSE)

\* the hundredths f"{abs(x):.2f}" prints: |x| * 100 rounded to the nearest
\* integer, ties to even
Hundredths(x) ==
    LET n == Times(x.mant, 100)
    IN  IF x.exp >= 0 THEN BitsValue(n) * Pow2(x.exp)
        ELSE LET f == - x.exp
                 p == [i \in 1..(IF Len(n) > f THEN 0 ELSE f + 1 - Len(n)) |-> 0] \o n
                 whole == BitsValue(SubSeq(p, 1, Len(p) - f))
                 guard == p[Len(p) - f + 1]
                 rest == \E i \in (Len(p) - f + 2)..Len(p) : p[i] = 1
             IN  IF guard = 1 /\ (rest \/ whole % 2 = 1) THEN whole + 1 ELSE whole

\* f"{abs(x):.2f}" of a float x: "inf" and "nan" print as such
FormatAbs2f(x) == IF x.kind = "finite" THEN [kind |-> "num", cents |-> Hundredths(x)] ELSE [kind |-> x.kind]

\* the text of line 309 ("no data", in Russian)
NoDataText == [kind |-> "no data"]

format_value_zero(value) == [kind |-> "num", cents |-> IF value = None THEN 0 ELSE RoundHalfEven(value[1] * 100, 1)]

\* format_value, lines 307-310
format_value(value) == IF value = None THEN NoDataText ELSE [kind |-> "num", cents |-> RoundHalfEven(value[1] * 100, 1)]

(***************************************************************************)
(* The price table.  df = [timestamp |-> sequence of instants,             *)
(* cols |-> sequence of [name, data]], every column as long as timestamp.  *)
(* An instant counts slots of 1/SlotsPerDay day; .dt.date is its day.      *)
(***************************************************************************)
DateOf(ts) == ts \div SlotsPerDay

NRows(df) == Len(df.timestamp)

\* line 76: the columns other than timestamp
Items(df) == [i \in DOMAIN df.cols |-> df.cols[i].name]

\* df[item]
Column(df, item) == (CHOOSE c \in Range(df.cols) : c.name = item).data

RECURSIVE Keep(_, _)
Keep(s, mask) == IF s = <<>> THEN <<>> ELSE (IF Head(mask) THEN <<Head(s)>> ELSE <<>>) \o Keep(Tail(s), Tail(mask))

\* df.loc[mask]
Loc(df, mask) == [timestamp |-> Keep(df.timestamp, mask), cols |-> [i \in DOMAIN df.cols |-> [name |-> df.cols[i].name, data |-> Keep(df.cols[i].data, mask)]]]

DateMaskExclusiveEnd(df, date_range) == [i \in DOMAIN df.timestamp |-> DateOf(df.timestamp[i]) >= date_range[1] /\ DateOf(df.timestamp[i]) < date_range[2]]

\* lines 117 and 148: the mask of the rows whose date lies in the range
DateMask(df, date_range) == [i \in DOMAIN df.timestamp |-> DateOf(df.timestamp[i]) >= date_range[1] /\ DateOf(df.timestamp[i]) <= date_range[2]]

Unwrap(col) == [i \in DOMAIN col |-> col[i][1]]

FillNaZero(col) == [i \in DOMAIN col |-> IF col[i] = NaN THEN 0 ELSE col[i][1]]

\* Series.dropna(): the observed prices, in order
DropNa(col) == Unwrap(SelectSeq(col, LAMBDA c : c # NaN))

get_first_valid_price(df, item) == LET valid_prices == DropNa(Column(df, item)) IN IF Len(valid_prices) > 0 THEN Some(valid_prices[1]) ELSE None

\* get_last_valid_price, lines 61-66
get_last_valid_price(df, item) == LET valid_prices == DropNa(Column(df, item)) IN IF Len(valid_prices) > 0 THEN Some(valid_prices[Len(valid_prices)]) ELSE None

\* lines 124 and 191: the first non-NaN value of the column, or None
StartPrice(df, item) == LET valid == DropNa(Column(df, item)) IN IF valid # <<>> THEN Some(valid[1]) ELSE None

\* line 225
MinPrice(df, item) == LET valid == DropNa(Column(df, item)) IN IF valid # <<>> THEN Some(Min(Range(valid))) ELSE None

\* line 226
MaxPriceOf(df, item) == LET valid == DropNa(Column(df, item)) IN IF valid # <<>> THEN Some(Max(Range(valid))) ELSE None

\* line 128: ((end_price - start_price) / start_price) * 100 in doubles, the
\* prices being integers; a zero divisor gives inf or nan, no exception
PercentChange(start_price, end_price) == LET d == end_price - start_price IN IF start_price # 0 THEN TimesSmall(Quotient(d, start_price), 100) ELSE IF d = 0 THEN [kind |-> "nan"] ELSE [kind |-> "inf", neg |-> d < 0]

\* percent_change >= 0, which is True for -0.0 and False for nan
NonNegative(x) == IF x.kind = "finite" THEN ~ x.neg \/ x.mant = <<>> ELSE IF x.kind = "inf" THEN ~ x.neg ELSE FALSE

\* lines 127-139: the badge, or None when a price is missing
Badge(start_price, end_price) == IF start_price # None /\ end_price # None THEN LET percent_change == PercentChange(start_price[1], end_price[1]) IN Some([color |-> IF NonNegative(percent_change) THEN "green" ELSE "red", arrow |-> IF NonNegative(percent_change) THEN "up" ELSE "down", text |-> FormatAbs2f(percent_change)]) ELSE None

RollingMeanPartial(col, window) == [i \in DOMAIN col |-> LET lo == Max({1, i - window + 1}) obs == DropNa(SubSeq(col, lo, i)) IN IF Len(obs) >= 1 THEN Some([num |-> SumSeq(obs), den |-> Len(obs)]) ELSE NaN]

\* Series.rolling(window=window).mean(), line 163: min_periods defaults to window
RollingMean(col, window) == [i \in DOMAIN col |-> LET lo == Max({1, i - window + 1}) obs == DropNa(SubSeq(col, lo, i)) IN IF Len(obs) >= window THEN Some([num |-> SumSeq(obs), den |-> Len(obs)]) ELSE NaN]

(***************************************************************************)
(* Text: str.strip, str.replace, str.split.  A character is its code      *)
(* point.                                                                  *)
(***************************************************************************)
\* '"'
Q == 34

\* ','
Comma == 44

\* ' '
Space == 32

\* '\t'
Tab == 9

\* '\n'
Newline == 10

\* the characters str.strip() removes (str.isspace): \t \n \x0b \x0c \r,
\* \x1c-\x1f, space, \x85, \xa0, U+1680, U+2000-U+200A, U+2028, U+2029,
\* U+202F, U+205F, U+3000
Whitespace == (9..13) \cup (28..32) \cup {133, 160, 5760} \cup (8192..8202) \cup {8232, 8233, 8239, 8287, 12288}

RECURSIVE LStrip(_, _)
LStrip(s, chars) == IF s # <<>> /\ Head(s) \in chars THEN LStrip(Tail(s), chars) ELSE s

RECURSIVE RStrip(_, _)
RStrip(s, chars) == IF s # <<>> /\ s[Len(s)] \in chars THEN RStrip(SubSeq(s, 1, Len(s) - 1), chars) ELSE s

\* s.strip()
Strip(s) == RStrip(LStrip(s, Whitespace), Whitespace)

\* s.strip('"')
StripQuotes(s) == RStrip(LStrip(s, {Q}), {Q})

\* s.replace('"', '')
RemoveQuotes(s) == SelectSeq(s, LAMBDA c : c # Q)

\* lines 26 and 207: s.strip().strip('"')
CleanName(s) == StripQuotes(Strip(s))

\* the index of the first sep in s, or 0
IndexOf(s, sep) == IF \E i \in DOMAIN s : s[i] = sep THEN Min({i \in DOMAIN s : s[i] = sep}) ELSE 0

\* line 24: s.split(sep, 1)
SplitFirst(s, sep) == LET k == IndexOf(s, sep) IN IF k = 0 THEN <<s>> ELSE <<SubSeq(s, 1, k - 1), SubSeq(s, k + 1, Len(s))>>

(***************************************************************************)
(* load_image_data, lines 12-39.                                           *)
(***************************************************************************)
\* lines 24-30: one line of the file added to img_dict
AddImageLine(img_dict, line) == LET parts == SplitFirst(line, Comma) IN IF Len(parts) = 2 THEN LET name == CleanName(parts[1]) url == StripQuotes(Strip(parts[2])) IN Put(Put(Put(img_dict, name, url), Strip(name), url), RemoveQuotes(name), url) ELSE img_dict

RECURSIVE AddImageLines(_, _)
AddImageLines(img_dict, lines) == IF lines = <<>> THEN img_dict ELSE AddImageLines(AddImageLine(img_dict, Head(lines)), Tail(lines))

\* lines 20-32: the header is skipped
ParseImageLines(lines) == IF lines = <<>> THEN EmptyDict ELSE AddImageLines(EmptyDict, Tail(lines))

\* lines 15-39: every exception is reported and gives an empty dict
ReadImageData(file) == IF file.status = "ok" THEN ParseImageLines(file.lines) ELSE EmptyDict

\* the memoised call (st.cache_data without ttl): <<result, cache entry>>
load_image_data(file, cache) == IF cache # None THEN <<cache[1], cache>> ELSE <<ReadImageData(file), Some(ReadImageData(file))>>

(***************************************************************************)
(* load_supply_data, lines 49-58.  The result is Some(dict), or None when  *)
(* the call raises: only FileNotFoundError is handled.                     *)
(***************************************************************************)
ReadSupplyData(file) == IF file.status = "ok" THEN Some(file.dict) ELSE IF file.status = "missing" THEN Some(EmptyDict) ELSE None

\* the memoised call: a raised exception is not stored
load_supply_data(file, cache) == IF cache # None THEN <<cache, cache>> ELSE <<ReadSupplyData(file), ReadSupplyData(file)>>

(***************************************************************************)
(* load_data, lines 41-47, behind st.cache_data(ttl=60): the entry made at *)
(* loadedAt is served while clock - loadedAt < TTL; the file is not looked *)
(* at on a hit.  On a miss the function runs: line 44 reads the file's     *)
(* modification time and line 45 its rows, two file operations between     *)
(* which the file may be rewritten.                                        *)
(***************************************************************************)
CacheHit(cache, now) == cache # None /\ now - cache[1].loadedAt < TTL

\* line 44 done for a run whose widgets' state is w: what load_data holds
StatFile(file, w) == [w |-> w, last_modified |-> file.mtime]

\* lines 45-47: the entry load_data returns and the cache stores
ReadData(file, last_modified, now) == [df |-> file.df, last_modified |-> last_modified, loadedAt |-> now]

(***************************************************************************)
(* main(), lines 68-316.                                                   *)
(***************************************************************************)
\* int(supply_dict.get(item, 0)), lines 77, 158 and 316
SupplyOf(supply_dict, item) == Get(supply_dict, item, 0)

\* line 77: the multiselect's options, one label per column
Options(df, supply_dict) == [i \in DOMAIN Items(df) |-> [item |-> Items(df)[i], supply |-> SupplyOf(supply_dict, Items(df)[i])]]

\* line 162: window = int(ma_period * 2)
Window(ma_period) == ma_period * SamplesPerHour

\* lines 154-159
PriceTrace(filtered_df, supply_dict, item) == [kind |-> "price", item |-> item, supply |-> SupplyOf(supply_dict, item), x |-> filtered_df.timestamp, y |-> Column(filtered_df, item)]

\* lines 162-170
MaTrace(filtered_df, item, ma_period) == [kind |-> "ma", item |-> item, period |-> ma_period, x |-> filtered_df.timestamp, y |-> RollingMean(Column(filtered_df, item), Window(ma_period))]

\* lines 153-170: per selected item its price trace, then its moving average
Traces(filtered_df, supply_dict, selected_items, ma) == IF ma = None THEN [k \in DOMAIN selected_items |-> PriceTrace(filtered_df, supply_dict, selected_items[k])] ELSE [k \in 1..(2 * Len(selected_items)) |-> IF k % 2 = 1 THEN PriceTrace(filtered_df, supply_dict, selected_items[(k + 1) \div 2]) ELSE MaTrace(filtered_df, selected_items[k \div 2], ma[1])]

\* lines 207-215: three look-ups, then the default image with a warning
ImageOf(img_dict, item) == IF CleanName(item) \in DOMAIN img_dict THEN [url |-> img_dict[CleanName(item)], warning |-> FALSE] ELSE IF Strip(item) \in DOMAIN img_dict THEN [url |-> img_dict[Strip(item)], warning |-> FALSE] ELSE IF Strip(RemoveQuotes(item)) \in DOMAIN img_dict THEN [url |-> img_dict[Strip(RemoveQuotes(item))], warning |-> FALSE] ELSE [url |-> default_img, warning |-> TRUE]

\* lines 187-316: the image and the four metrics of the single selected item
Stats(filtered_df, supply_dict, img_dict, item) == [item |-> item, image |-> ImageOf(img_dict, item), current |-> format_value(get_last_valid_price(filtered_df, item)), min |-> format_value(MinPrice(filtered_df, item)), max |-> format_value(MaxPriceOf(filtered_df, item)), supply |-> SupplyOf(supply_dict, item)]

NotRun == [status |-> "not run", options |-> <<>>, badge |-> None, traces |-> <<>>, stats |-> None]

\* the page of a run that load_supply_data's exception ended
Raised == [status |-> "exception", options |-> <<>>, badge |-> None, traces |-> <<>>, stats |-> None]

\* lines 104-316, after the widgets were read
Render(df, supply_dict, img_dict, selected_items, date_range, ma) ==
    IF Len(date_range) # 2
    THEN [status |-> "select two dates", options |-> Options(df, supply_dict), badge |-> None, traces |-> <<>>, stats |-> None]
    ELSE IF selected_items = <<>>
    THEN [status |-> "done", options |-> Options(df, supply_dict), badge |-> None, traces |-> <<>>, stats |-> None]
    ELSE LET filtered_df == Loc(df, DateMask(df, date_range))
             item == selected_items[1]
         IN  [status |-> "done",
              options |-> Options(df, supply_dict),
              badge |-> IF Len(selected_items) = 1 THEN Badge(StartPrice(filtered_df, item), get_last_valid_price(filtered_df, item)) ELSE None,
              traces |-> Traces(filtered_df, supply_dict, selected_items, ma),
              stats |-> IF Len(selected_items) = 1 THEN Some(Stats(filtered_df, supply_dict, img_dict, item)) ELSE None]

Dates(df) == {DateOf(df.timestamp[i]) : i \in DOMAIN df.timestamp}

\* lines 94-96: the arguments of st.date_input, the first and the last date of
\* the table; they are the widget's identity
DateKey(df) == <<Min(Dates(df)), Max(Dates(df))>>

\* the widgets before the first run of a session
Unset == [set |-> FALSE, selected_items |-> <<>>, date_range |-> <<>>, date_key |-> <<>>, ma |-> None]

\* lines 84-101: the values the widgets return in a run on the table df, w
\* being the widgets' state in the session.  A widget returns its state, or
\* its default when it has none; a date input whose arguments differ from the
\* last run's is a new widget and returns its default, the table's full range.
\* ma is None when "Show moving average" is off, else Some(period).
WidgetValues(df, w) == [set |-> TRUE, selected_items |-> IF w.set THEN w.selected_items ELSE IF Items(df) # <<>> THEN <<Items(df)[1]>> ELSE <<>>, date_range |-> IF w.set /\ w.date_key = DateKey(df) THEN w.date_range ELSE DateKey(df), date_key |-> DateKey(df), ma |-> IF w.set THEN w.ma ELSE Some(SliderDefault)]

\* lines 71-316: the run once load_data has returned entry
Finish(w, entry) ==
    LET supply == load_supply_data(supplyFile, supplyCache)
        img == load_image_data(imageFile, imageCache)
        values == WidgetValues(entry.df, w)
    IN  IF supply[1] = None
        THEN /\ view' = Raised
             /\ UNCHANGED <<supplyCache, imageCache, widgets>>
        ELSE /\ supplyCache' = supply[2]
             /\ imageCache' = img[2]
             /\ widgets' = values
             /\ view' = Render(entry.df, supply[1][1], img[1], values.selected_items, values.date_range, values.ma)

\* A run of the script from its start, w being the widgets' state in the
\* session: a whole run on a cache hit, and up to line 44 on a miss.
Main(w) ==
    /\ run = None
    /\ IF CacheHit(dataCache, clock)
       THEN /\ Finish(w, dataCache[1])
            /\ UNCHANGED <<dataCache, run>>
       ELSE /\ run' = Some(StatFile(priceFile, w))
            /\ UNCHANGED <<caches, widgets, view>>
    /\ UNCHANGED <<clock, files, raw, out>>

\* The run goes on from line 45: the rows are read, the entry is stored and
\* the page is rendered.
ReadCsv ==
    /\ run # None
    /\ LET entry == ReadData(priceFile, run[1].last_modified, clock)
       IN  /\ dataCache' = Some(entry)
           /\ Finish(run[1].w, entry)
    /\ run' = None
    /\ UNCHANGED <<clock, files, raw, out>>

(***************************************************************************)
(* The user's interactions; each one reruns the script.                    *)
(***************************************************************************)
\* st.multiselect: any of the options on the page, in the order they were
\* picked
Selections(options) == LET names == {options[i].item : i \in DOMAIN options} IN {<<>>} \cup {<<n>> : n \in names} \cup {<<p[1], p[2]>> : p \in {q \in names \X names : q[1] # q[2]}}

\* the checkbox and the slider (1..24, cut at MaxMaPeriod, and the default)
MaOptions == {None} \cup {Some(p) : p \in (SliderMin..Min({SliderMax, MaxMaPeriod})) \cup {SliderDefault}}

\* the page is opened: the widgets have no state
Open == /\ ~ widgets.set
        /\ Main(widgets)

\* the selection is changed
Select == /\ widgets.set
          /\ \E s \in Selections(view.options) \ {widgets.selected_items} : Main([widgets EXCEPT !.selected_items = s])

\* a date is picked: the first click leaves one date, the second completes the
\* range with a date not before it (lines 95-96: both within the dates the
\* widget was given)
PickDate == /\ widgets.set
            /\ IF Len(widgets.date_range) = 2
               THEN \E a \in (widgets.date_key[1])..(widgets.date_key[2]) : Main([widgets EXCEPT !.date_range = <<a>>])
               ELSE \E b \in (widgets.date_range[1])..(widgets.date_key[2]) : Main([widgets EXCEPT !.date_range = <<widgets.date_range[1], b>>])

\* the checkbox is toggled or the slider moved
SetMa == /\ widgets.set
         /\ \E m \in MaOptions \ {widgets.ma} : Main([widgets EXCEPT !.ma = m])

(***************************************************************************)
(* The price tables explored.                                              *)
(***************************************************************************)
\* "X"
ItemX == <<88>>

Cells == {NaN} \cup {Some(v) : v \in 0..MaxPrice}

NonDecreasing(k, S) == {s \in [1..k -> S] : \A i \in 1..(k - 1) : s[i] <= s[i + 1]}

OneColumn(ts, data) == [timestamp |-> ts, cols |-> <<[name |-> ItemX, data |-> data]>>]

Increasing(k, S) == {s \in [1..k -> S] : \A i \in 1..(k - 1) : s[i] < s[i + 1]}

\* at most MaxRows rows, one a day at the start of the day, any cells
DailyTables == UNION {{OneColumn([i \in 1..k |-> days[i] * SlotsPerDay], data) : days \in Increasing(k, 0..(MaxDay - 1)), data \in [1..k -> Cells]} : k \in 1..MaxRows}

\* at most MaxRows rows at any instants of the first two days, row i priced
\* i (mod MaxPrice + 1)
IntradayTables == UNION {{OneColumn(ts, [i \in 1..k |-> Some(i % (MaxPrice + 1))]) : ts \in NonDecreasing(k, 0..(2 * SlotsPerDay - 1))} : k \in 1..MaxRows}

\* one row per slot, as long as the widest window, cells NaN, 1 or MaxPrice
CadenceTables == UNION {{OneColumn([i \in 1..k |-> i - 1], data) : data \in [1..k -> {NaN, Some(1), Some(MaxPrice)}]} : k \in 1..Window(MaxMaPeriod)}

\* "Y"
ItemY == <<89>>

\* two columns: one or two daily rows, cells NaN or MaxPrice
PairTables == UNION {{[timestamp |-> [i \in 1..k |-> days[i] * SlotsPerDay], cols |-> <<[name |-> ItemX, data |-> dx], [name |-> ItemY, data |-> dy]>>] : days \in Increasing(k, 0..(MaxDay - 1)), dx \in [1..k -> {NaN, Some(MaxPrice)}], dy \in [1..k -> {NaN, Some(MaxPrice)}]} : k \in 1..2}

PriceTables == DailyTables \cup IntradayTables \cup CadenceTables \cup PairTables

SupplyX == [status |-> "ok", dict |-> [n \in {ItemX} |-> 7]]

ImageX == [status |-> "ok", lines |-> <<>>]

Init ==
    /\ clock = 0
    /\ priceFile \in {[mtime |-> 0, df |-> t] : t \in PriceTables}
    /\ supplyFile = SupplyX
    /\ imageFile = ImageX
    /\ dataCache = None
    /\ supplyCache = None
    /\ imageCache = None
    /\ widgets = Unset
    /\ view = NotRun
    /\ run = None
    /\ raw = <<>>
    /\ out = None

Next == Open \/ ReadCsv \/ Select \/ PickDate \/ SetMa

Spec == Init /\ [][Next]_vars

(***************************************************************************)
(* The price file over time: the clock advances, an outside process        *)
(* appends a row to the file (its modification time becomes the clock),    *)
(* also while load_data is between its two file operations, and the page   *)
(* is opened and its selection changed (each a run).                       *)
(***************************************************************************)
\* the clock is watched every third of the time-to-live
TickSteps == {TTL \div 3}

Tick == \E d \in TickSteps : /\ clock + d <= MaxClock
                             /\ clock' = clock + d
                             /\ UNCHANGED <<files, caches, widgets, view, run, raw, out>>

AppendRow(df, cell) == [timestamp |-> Append(df.timestamp, df.timestamp[NRows(df)] + 1), cols |-> <<[name |-> df.cols[1].name, data |-> Append(df.cols[1].data, cell)]>>]

FileUpdate == /\ NRows(priceFile.df) < MaxRows
              /\ clock > priceFile.mtime
              /\ \E cell \in {NaN, Some(MaxPrice)} : priceFile' = [mtime |-> clock, df |-> AppendRow(priceFile.df, cell)]
              /\ UNCHANGED <<clock, supplyFile, imageFile, caches, widgets, view, run, raw, out>>

InitCache ==
    /\ clock = 0
    /\ priceFile = [mtime |-> 0, df |-> OneColumn(<<0>>, <<Some(1)>>)]
    /\ supplyFile = SupplyX
    /\ imageFile = ImageX
    /\ dataCache = None
    /\ supplyCache = None
    /\ imageCache = None
    /\ widgets = Unset
    /\ view = NotRun
    /\ run = None
    /\ raw = <<>>
    /\ out = None

NextCache == Tick \/ FileUpdate \/ Open \/ ReadCsv \/ Select

SpecCache == InitCache /\ [][NextCache]_vars

(***************************************************************************)
(* The catalogs: a one-row price table whose item has any short name, with *)
(* the supply file and the image file in each of their conditions.         *)
(***************************************************************************)
Strings(chars, n) == UNION {[1..k -> chars] : k \in 0..n}

\* 'a'
LetterA == 97

NameChars == {LetterA, Space, Q}

ItemNames == Strings(NameChars, MaxNameLen) \ {<<>>}

\* "https://"
Https == <<104, 116, 116, 112, 115, 58, 47, 47>>

\* "https://u"
UrlU == Https \o <<117>>

\* "n,u\n"
Header == <<110, Comma, 117, Newline>>

\* missing: FileNotFoundError; unreadable: PermissionError; malformed: no
\* 'Item Name' column (KeyError); ok: the name -> supply pairs of the file
SupplyFiles(item) == {[status |-> st, dict |-> EmptyDict] : st \in {"missing", "unreadable", "malformed", "ok"}} \cup {[status |-> "ok", dict |-> [n \in {item} |-> 7]]}

\* missing, unreadable, or a header and at most one line naming the item as it
\* is, cleaned, or another item
ImageFiles(item) == {[status |-> st, lines |-> <<>>] : st \in {"missing", "unreadable"}} \cup {[status |-> "ok", lines |-> <<Header>>]} \cup {[status |-> "ok", lines |-> <<Header, n \o <<Comma>> \o UrlU \o <<Newline>>>>] : n \in {item, CleanName(item), <<98>>}}

InitCatalog ==
    /\ clock = 0
    /\ \E item \in ItemNames :
          /\ priceFile = [mtime |-> 0, df |-> [timestamp |-> <<0>>, cols |-> <<[name |-> item, data |-> <<Some(1)>>]>>]]
          /\ supplyFile \in SupplyFiles(item)
          /\ imageFile \in ImageFiles(item)
    /\ dataCache = None
    /\ supplyCache = None
    /\ imageCache = None
    /\ widgets = Unset
    /\ view = NotRun
    /\ run = None
    /\ raw = <<>>
    /\ out = None

NextCatalog == Open \/ ReadCsv \/ Select

SpecCatalog == InitCatalog /\ [][NextCatalog]_vars

(***************************************************************************)
(* The name clean-up called on its own result.                             *)
(***************************************************************************)
Normalize == /\ out' = Some(CleanName(IF out = None THEN raw ELSE out[1]))
             /\ UNCHANGED <<clock, files, caches, widgets, view, run, raw>>

InitNames ==
    /\ clock = 0
    /\ priceFile = [mtime |-> 0, df |-> OneColumn(<<0>>, <<Some(1)>>)]
    /\ supplyFile = SupplyX
    /\ imageFile = ImageX
    /\ dataCache = None
    /\ supplyCache = None
    /\ imageCache = None
    /\ widgets = Unset
    /\ view = NotRun
    /\ run = None
    /\ raw \in Strings(NameChars, MaxNameLen)
    /\ out = None

NextNames == Normalize

SpecNames == InitNames /\ [][NextNames]_vars

(***************************************************************************)
(* load_image_data called on a file of a header and one line: a name of    *)
(* letters, commas, quotes, spaces and tabs, a comma, and a URL, bare or   *)
(* quoted.                                                                 *)
(***************************************************************************)
LineChars == {LetterA, Comma, Space, Tab, Q}

ImageLines == {n \o <<Comma>> \o u \o <<Newline>> : n \in Strings(LineChars, MaxNameLen - 1), u \in {UrlU, <<Q>> \o UrlU \o <<Q>>}}

LoadImage == /\ imageCache = None
             /\ imageCache' = load_image_data(imageFile, imageCache)[2]
             /\ UNCHANGED <<clock, files, dataCache, supplyCache, widgets, view, run, raw, out>>

InitImage ==
    /\ clock = 0
    /\ priceFile = [mtime |-> 0, df |-> OneColumn(<<0>>, <<Some(1)>>)]
    /\ supplyFile = SupplyX
    /\ imageFile \in {[status |-> "ok", lines |-> <<Header, l>>] : l \in ImageLines}
    /\ dataCache = None
    /\ supplyCache = None
    /\ imageCache = None
    /\ widgets = Unset
    /\ view = NotRun
    /\ run = None
    /\ raw = <<>>
    /\ out = None

NextImage == LoadImage

SpecImage == InitImage /\ [][NextImage]_vars

(***************************************************************************)
(* Properties.  They speak of the last run through the page it left (view) *)
(* and the inputs it had: the table served (RunDf), the widgets, and the   *)
(* rows of the table whose date lies in the chosen range (WindowRows).     *)
(***************************************************************************)
RunDf == dataCache[1].df

Single == view.status = "done" /\ Len(widgets.selected_items) = 1

TheItem == widgets.selected_items[1]

CellsOf(item) == (CHOOSE c \in Range(RunDf.cols) : c.name = item).data

WindowRows == {i \in DOMAIN RunDf.timestamp : widgets.date_range[1] <= DateOf(RunDf.timestamp[i]) /\ DateOf(RunDf.timestamp[i]) <= widgets.date_range[2]}

\* the p-th row of the window, in table order
NthWindowRow(p) == CHOOSE i \in WindowRows : Cardinality({j \in WindowRows : j <= i}) = p

Observed(item) == {i \in WindowRows : CellsOf(item)[i] # NaN}

FirstValid == CellsOf(TheItem)[Min(Observed(TheItem))][1]

LastValid == CellsOf(TheItem)[Max(Observed(TheItem))][1]

\* C1: whenever the statistics panel shows a current price, it is the last
\* observed (non-NaN) price of the item among the rows of the date range, the
\* minimum and maximum shown are the least and the greatest observed price of
\* those same rows, and min <= current <= max; a current price is shown exactly
\* when the range holds an observation.
C1_MinCurrentMax ==
    Single =>
        LET st == view.stats[1]
            seen == {100 * CellsOf(TheItem)[i][1] : i \in Observed(TheItem)}
        IN  /\ (st.current.kind = "num") <=> (Observed(TheItem) # {})
            /\ Observed(TheItem) # {} =>
                  /\ st.current.cents = 100 * LastValid
                  /\ st.min.kind = "num" /\ st.max.kind = "num"
                  /\ st.min.cents \in seen /\ st.max.cents \in seen
                  /\ \A c \in seen : st.min.cents <= c /\ c <= st.max.cents
                  /\ st.min.cents <= st.current.cents /\ st.current.cents <= st.max.cents

\* C1 witness: the last row of the range has no observation, and the current
\* price shown lies strictly below the maximum.
C1_Witness ==
    /\ Single
    /\ WindowRows # {}
    /\ CellsOf(TheItem)[Max(WindowRows)] = NaN
    /\ Observed(TheItem) # {}
    /\ view.stats[1].current.cents < view.stats[1].max.cents

\* C2: for a single selected item the badge shows |last - first| / first * 100
\* to two decimals, first and last being the first and the last observed price
\* among the rows of the range (not the cells of its first and last row), with
\* an up arrow in green when last >= first and a down arrow in red otherwise;
\* no badge is shown exactly when the range holds no observation.  (first = 0
\* is the subject of C3.)
C2_PercentChange ==
    Single =>
        /\ (view.badge # None) <=> (Observed(TheItem) # {})
        /\ (Observed(TheItem) # {} /\ FirstValid # 0) =>
              LET b == view.badge[1]
              IN  /\ b.text.kind = "num"
                  /\ 2 * Abs(b.text.cents * FirstValid - 10000 * Abs(LastValid - FirstValid)) <= FirstValid
                  /\ b.arrow = IF LastValid >= FirstValid THEN "up" ELSE "down"
                  /\ b.color = IF LastValid >= FirstValid THEN "green" ELSE "red"

\* C2 witness: the first and the last row of the range are both NaN, the
\* observations between them differ, and a nonzero change is shown.
C2_Witness ==
    /\ Single
    /\ Observed(TheItem) # {}
    /\ CellsOf(TheItem)[Min(WindowRows)] = NaN
    /\ CellsOf(TheItem)[Max(WindowRows)] = NaN
    /\ FirstValid # 0
    /\ LastValid # FirstValid
    /\ view.badge[1].text.kind = "num"
    /\ view.badge[1].text.cents > 0

\* C3: when the first observed price of the range is 0, no percent change is
\* shown (the division is guarded).
C3_ZeroDivisorGuarded ==
    (Single /\ Observed(TheItem) # {} /\ FirstValid = 0) => view.badge = None

\* C4: when the range holds no observation of the selected item (no row in the
\* range, or only NaN cells), the run completes, current, min and max are each
\* shown as the no-data text, and no percent change is shown.
C4_NoData ==
    (view.status # "not run" /\ widgets.set /\ Len(widgets.selected_items) = 1 /\ Len(widgets.date_range) = 2 /\ Observed(TheItem) = {}) =>
        /\ view.status = "done"
        /\ view.stats # None
        /\ view.stats[1].current = NoDataText
        /\ view.stats[1].min = NoDataText
        /\ view.stats[1].max = NoDataText
        /\ view.badge = None

\* C4 witness: a table with rows, a date range that selects none of them, and
\* the three statistics shown as no data.
C4_Witness ==
    /\ Single
    /\ WindowRows = {}
    /\ NRows(RunDf) >= 2
    /\ view.stats[1].current = NoDataText

\* C5: the moving-average trace of every selected item, with window =
\* 2 * ma_period, has one point per row of the range; its point p is defined
\* iff rows p-window+1 .. p of the range all exist and hold observations, and
\* then equals their arithmetic mean (mean * window = their sum).
C5_MovingAverage ==
    (view.status = "done" /\ widgets.ma # None) =>
        \A k \in DOMAIN view.traces :
            view.traces[k].kind = "ma" =>
                LET t == view.traces[k]
                    window == 2 * widgets.ma[1]
                    cell(p) == CellsOf(t.item)[NthWindowRow(p)]
                    full(p) == p >= window /\ \A j \in (p - window + 1)..p : cell(j) # NaN
                    S[j \in 0..Len(t.y)] == IF j = 0 THEN 0 ELSE S[j - 1] + (IF cell(j) = NaN THEN 0 ELSE cell(j)[1])
                IN  /\ t.period = widgets.ma[1]
                    /\ Len(t.y) = Cardinality(WindowRows)
                    /\ \A p \in DOMAIN t.y :
                          /\ (t.y[p] # NaN) <=> full(p)
                          /\ full(p) => t.y[p][1].num * window = t.y[p][1].den * (S[p] - S[p - window])

\* C5 witness: a moving-average trace with a defined point and, at or after
\* position window, an undefined one (a NaN cell inside its window).
C5_Witness ==
    /\ view.status = "done"
    /\ widgets.ma # None
    /\ \E k \in DOMAIN view.traces :
          /\ view.traces[k].kind = "ma"
          /\ \E p \in DOMAIN view.traces[k].y : view.traces[k].y[p] # NaN
          /\ \E p \in DOMAIN view.traces[k].y : p >= 2 * widgets.ma[1] /\ view.traces[k].y[p] = NaN

\* C6: the rows charted for every selected item are exactly the rows of the
\* table whose date lies in [start, end], both ends included, in table order
\* and with their cells unchanged.
C6_DateFilter ==
    (view.status = "done" /\ widgets.selected_items # <<>>) =>
        \A k \in DOMAIN view.traces :
            view.traces[k].kind = "price" =>
                /\ view.traces[k].x = [p \in 1..Cardinality(WindowRows) |-> RunDf.timestamp[NthWindowRow(p)]]
                /\ view.traces[k].y = [p \in 1..Cardinality(WindowRows) |-> CellsOf(view.traces[k].item)[NthWindowRow(p)]]

\* C6 witness: a one-day range [d, d] with two rows at different instants of
\* day d, both charted, and a row of another day left out.
C6_Witness ==
    /\ view.status = "done"
    /\ widgets.selected_items # <<>>
    /\ widgets.date_range[1] = widgets.date_range[2]
    /\ \E i \in WindowRows, j \in WindowRows : RunDf.timestamp[i] # RunDf.timestamp[j]
    /\ WindowRows # DOMAIN RunDf.timestamp
    /\ Len(view.traces[1].x) = Cardinality(WindowRows)

\* C7: whatever the condition of the supply and image files (missing,
\* unreadable, malformed, or without an entry for the item), a run of the page
\* completes; a loader whose file is missing or unreadable gives the empty
\* mapping; every item without a supply entry is listed with supply 0; and a
\* single selected item none of whose look-up keys is in the image mapping
\* gets the default image with a warning.
C7_CatalogNeverFatal ==
    view.status # "not run" =>
        /\ view.status # "exception"
        /\ supplyFile.status # "ok" => supplyCache = Some(EmptyDict)
        /\ imageFile.status # "ok" => imageCache = Some(EmptyDict)
        /\ \A k \in DOMAIN view.options : view.options[k].item \notin DOMAIN supplyFile.dict => view.options[k].supply = 0
        /\ (view.stats # None /\ imageCache # None /\ {CleanName(TheItem), Strip(TheItem), Strip(RemoveQuotes(TheItem))} \cap DOMAIN imageCache[1] = {}) => view.stats[1].image = [url |-> default_img, warning |-> TRUE]

\* C8: cleaning an already cleaned name changes nothing: once the clean-up
\* s.strip().strip('"') has been applied, applying it again gives the same
\* name.
C8_NormalizeIdempotent == [][out # None => out' = out]_vars

\* a step in which load_data returns a table to a run: a cache hit, or the
\* end of a read
Served == ReadCsv \/ ((Open \/ Select) /\ CacheHit(dataCache, clock))

\* C9: a run is never served a table whose recorded modification time differs
\* from the file's current one; a run started while the file is unchanged and
\* less than 60 seconds have passed since the load is served the cached table;
\* and a run started 60 seconds or more after the load reads the file again.
C9_FreshOrReloaded ==
    [][/\ Served => dataCache'[1].last_modified = priceFile.mtime
       /\ ((Open \/ Select) /\ dataCache # None /\ clock - dataCache[1].loadedAt < 60 /\ dataCache[1].last_modified = priceFile.mtime) => (dataCache' = dataCache /\ run' = None)
       /\ ((Open \/ Select) /\ dataCache # None /\ clock - dataCache[1].loadedAt >= 60) => run' # None
       /\ ReadCsv => (dataCache'[1].df = priceFile.df /\ dataCache'[1].loadedAt = clock)]_vars

(***************************************************************************)
(* C10 reads a line of the image file by its content: the URL starts at    *)
(* the first "https://", the name is what precedes it, less the delimiter  *)
(* and cleaned as the loader cleans a name.                                *)
(***************************************************************************)
FindHttps(line) == LET hits == {i \in 1..(Len(line) - Len(Https) + 1) : SubSeq(line, i, i + Len(Https) - 1) = Https} IN IF hits = {} THEN 0 ELSE Min(hits)

\* the text before the URL, less the URL's opening quote and the one delimiter
NameField(line) == LET before == RStrip(SubSeq(line, 1, FindHttps(line) - 1), Whitespace \cup {Q}) IN IF before # <<>> /\ before[Len(before)] = Comma THEN SubSeq(before, 1, Len(before) - 1) ELSE before

NameBeforeUrl(line) == CleanName(NameField(line))

UrlFrom(line) == StripQuotes(Strip(SubSeq(line, FindHttps(line), Len(line))))

ByContent(img_dict, line) == IF FindHttps(line) = 0 THEN img_dict ELSE Put(Put(Put(img_dict, NameBeforeUrl(line), UrlFrom(line)), Strip(NameBeforeUrl(line)), UrlFrom(line)), RemoveQuotes(NameBeforeUrl(line)), UrlFrom(line))

\* C10: the mapping load_image_data builds from a header and one line is the
\* mapping of the split by content: name = the text before the first
\* "https://", URL = the text from there on, also when the name holds a comma.
C10_SplitAtUrl ==
    imageCache # None => imageCache[1] = ByContent(EmptyDict, imageFile.lines[2])

=============================================================================
